---- MODULE Spec2Model ----
(***************************************************************************)
(* State machine of the FoodRecipes application (src/App.tsx): the recipe  *)
(* collection held in React state, its copy in AsyncStorage under          *)
(* STORAGE_KEY, the LIST / ADD / DETAIL views, the draft form, the delete  *)
(* confirmation dialog, the image library opened from the draft form and   *)
(* the storage writes that are in flight.                                  *)
(*                                                                         *)
(* A handler reads the state of the render it was created in.  A handler   *)
(* run from the current screen reads the current state; the continuation   *)
(* of an await and the callback of an open dialog read the values captured *)
(* when the handler or the dialog was created.                             *)
(***************************************************************************)
EXTENDS Integers, Sequences, FiniteSets, TLC

VARIABLES recipes, recipesKind, view, selectedRecipe, loading, form,
          storage, pending, deleteDialog, lastAlert, writes, loadFailed,
          picker

vars == <<recipes, recipesKind, view, selectedRecipe, loading, form,
          storage, pending, deleteDialog, lastAlert, writes, loadFailed,
          picker>>

---------------------------------------------------------------------------
(* Bounds *)

MaxNow == 2          \* Date.now() returns a value in 1..MaxNow
MaxRecipes == 2      \* no create once the collection has this many recipes
MaxPending == 2      \* storage writes in flight at the same time
MaxWrites == 2       \* calls of AsyncStorage.setItem in one behaviour

---------------------------------------------------------------------------
(* JavaScript values *)

UNDEFINED == "<undefined>"
NULL == "<null>"

\* v || d
Or(v, d) == IF v = UNDEFINED \/ v = NULL \/ v = "" THEN d ELSE v

\* !v
Not(v) == v = UNDEFINED \/ v = NULL \/ v = ""

RecipeKeys == {"id", "title", "image", "category", "servings", "prepTime",
               "cookTime", "description", "ingredients", "instructions"}

CATEGORIES == <<"Breakfast", "Lunch", "Dinner", "Snack", "Dessert">>

\* useState<Partial<Recipe>>({})
EmptyForm == [k \in RecipeKeys |-> UNDEFINED]

NewRecipeBlankCategory(f, t) ==
    [id           |-> ToString(t),
     title        |-> Or(f.title, ""),
     image        |-> Or(f.image, NULL),
     category     |-> Or(f.category, ""),
     servings     |-> Or(f.servings, ""),
     prepTime     |-> Or(f.prepTime, ""),
     cookTime     |-> Or(f.cookTime, ""),
     description  |-> Or(f.description, ""),
     ingredients  |-> Or(f.ingredients, ""),
     instructions |-> Or(f.instructions, "")]

\* the object literal of handleSave
NewRecipe(f, t) ==
    [id           |-> ToString(t),
     title        |-> Or(f.title, ""),
     image        |-> Or(f.image, NULL),
     category     |-> Or(f.category, "General"),
     servings     |-> Or(f.servings, ""),
     prepTime     |-> Or(f.prepTime, ""),
     cookTime     |-> Or(f.cookTime, ""),
     description  |-> Or(f.description, ""),
     ingredients  |-> Or(f.ingredients, ""),
     instructions |-> Or(f.instructions, "")]

\* recipes.filter(r => r.id !== id)
RECURSIVE FilterOut(_, _)
FilterOut(rs, id) ==
    IF rs = <<>> THEN <<>>
    ELSE IF Head(rs).id # id THEN <<Head(rs)>> \o FilterOut(Tail(rs), id)
    ELSE FilterOut(Tail(rs), id)

Ids(rs) == {rs[i].id : i \in 1..Len(rs)}

---------------------------------------------------------------------------
(* JSON text.  A well-formed text is kept as its document tree: a string   *)
(* is the node <<"string", s>>, null is the node <<"null">>, an object is  *)
(* a function from its keys to nodes, the top level is an array of objects *)
(* or the literal null.                                                    *)

JNull == [t |-> "null", items |-> <<>>]
JArray(items) == [t |-> "array", items |-> items]

JValue(v) == IF v = NULL THEN <<"null">> ELSE <<"string", v>>

\* a property whose value is undefined is left out
JObject(r) == [k \in {f \in DOMAIN r : r[f] # UNDEFINED} |-> JValue(r[k])]

JSONStringify(rs) == JArray([i \in 1..Len(rs) |-> JObject(rs[i])])

ParseValue(n) == IF n[1] = "null" THEN NULL ELSE n[2]
ParseObject(o) == [k \in DOMAIN o |-> ParseValue(o[k])]

\* the value of JSON.parse: its runtime type and, for an array, its elements
JSONParse(doc) ==
    [kind  |-> doc.t,
     items |-> [i \in 1..Len(doc.items) |-> ParseObject(doc.items[i])]]

\* what AsyncStorage holds under STORAGE_KEY
Absent == [kind |-> "absent", doc |-> JNull]
Garbage == [kind |-> "garbage", doc |-> JNull]    \* not JSON: JSON.parse throws
Text(doc) == [kind |-> "text", doc |-> doc]

---------------------------------------------------------------------------
(* Initial state *)

OldRecipe == [NewRecipe([EmptyForm EXCEPT !.title = "Soup", !.ingredients = "water"], 0)
                EXCEPT !.image = "file:soup.jpg"]

InitialStorage ==
    {Absent, Garbage, Text(JNull), Text(JSONStringify(<<>>)),
     Text(JSONStringify(<<OldRecipe>>))}

Init ==
    /\ recipes = <<>>
    /\ recipesKind = "array"
    /\ view = "LIST"
    /\ selectedRecipe = <<>>
    /\ loading = TRUE
    /\ form = EmptyForm
    /\ storage \in InitialStorage
    /\ pending = <<>>
    /\ deleteDialog = <<>>
    /\ lastAlert = ""
    /\ writes = 0
    /\ loadFailed = FALSE
    /\ picker = <<>>

---------------------------------------------------------------------------
(* loadRecipes, run once by the mount effect *)

LoadRecipes(readOK) ==
    /\ loading
    /\ IF ~readOK \/ storage.kind = "garbage"
       THEN /\ lastAlert' = "Failed to load recipes"
            /\ loadFailed' = TRUE
            /\ UNCHANGED <<recipes, recipesKind>>
       ELSE IF storage.kind = "absent"
       THEN UNCHANGED <<recipes, recipesKind, lastAlert, loadFailed,
                   picker>>
       ELSE /\ recipes' = JSONParse(storage.doc).items
            /\ recipesKind' = JSONParse(storage.doc).kind
            /\ UNCHANGED <<lastAlert, loadFailed,
                   picker>>
    /\ loading' = FALSE
    /\ UNCHANGED <<view, selectedRecipe, form, storage, pending, deleteDialog,
                   writes, picker>>

\* the screen is drawn and takes touches: not the spinner, not a render that
\* threw on recipes.length / recipes.map, not under a dialog of Alert.alert,
\* not under the image library
InteractiveWhileLoading ==
    /\ recipesKind = "array"
    /\ deleteDialog = <<>> /\ lastAlert = "" /\ picker = <<>>

Interactive ==
    /\ ~loading /\ recipesKind = "array"
    /\ deleteDialog = <<>> /\ lastAlert = "" /\ picker = <<>>

\* the user closes the dialog of an error alert
DismissAlert ==
    /\ lastAlert # ""
    /\ lastAlert' = ""
    /\ UNCHANGED <<recipes, recipesKind, view, selectedRecipe, loading, form,
                   storage, pending, deleteDialog, writes,
                   loadFailed,
                   picker>>

\* renderList: the "+" button
TapAdd ==
    /\ Interactive /\ view = "LIST"
    /\ form' = EmptyForm
    /\ view' = "ADD"
    /\ UNCHANGED <<recipes, recipesKind, selectedRecipe, loading, storage,
                   pending, deleteDialog, lastAlert, writes, loadFailed,
                   picker>>

\* renderList: a recipe card, openDetail(recipe)
OpenDetail(i) ==
    /\ Interactive /\ view = "LIST"
    /\ i \in 1..Len(recipes)
    /\ selectedRecipe' = <<recipes[i]>>
    /\ view' = "DETAIL"
    /\ UNCHANGED <<recipes, recipesKind, loading, form, storage, pending,
                   deleteDialog, lastAlert, writes, loadFailed,
                   picker>>

\* renderAdd: onChangeText of a text input, onPress of a category chip
SetField(k, v) ==
    /\ Interactive /\ view = "ADD"
    /\ form' = [form EXCEPT ![k] = v]
    /\ UNCHANGED <<recipes, recipesKind, view, selectedRecipe, loading, storage,
                   pending, deleteDialog, lastAlert, writes, loadFailed,
                   picker>>

\* renderAdd: the photo area, handlePickImage up to its await: the image
\* library opens over the screen; the continuation keeps form of this render
PickImage ==
    /\ Interactive /\ view = "ADD"
    /\ picker' = <<form>>
    /\ UNCHANGED <<recipes, recipesKind, view, selectedRecipe, loading, form,
                   storage, pending, deleteDialog, lastAlert, writes, loadFailed>>

\* the image library closes: handlePickImage after its await
PickResult(canceled, uri) ==
    /\ picker # <<>>
    /\ form' = IF canceled THEN form ELSE [picker[1] EXCEPT !.image = uri]
    /\ picker' = <<>>
    /\ UNCHANGED <<recipes, recipesKind, view, selectedRecipe, loading, storage,
                   pending, deleteDialog, lastAlert, writes, loadFailed>>

\* renderAdd: the Cancel button
CancelAdd ==
    /\ Interactive /\ view = "ADD"
    /\ view' = "LIST"
    /\ UNCHANGED <<recipes, recipesKind, selectedRecipe, loading, form, storage,
                   pending, deleteDialog, lastAlert, writes, loadFailed,
                   picker>>

\* a write handed to AsyncStorage.setItem by saveRecipesToStorage, with what
\* the awaiting handler captured; before is the collection at the call
Write(op, updated, id, sel) ==
    [op |-> op, updated |-> updated, id |-> id, selectedRecipe |-> sel,
     before |-> recipes]

\* the test at the head of handleSave
MissingFieldsTitleOnly(f) == Not(f.title)

MissingFields(f) == Not(f.title) \/ Not(f.ingredients)

\* renderAdd: the Save button, handleSave; t is what Date.now() returns
HandleSave(t) ==
    /\ Interactive /\ view = "ADD"
    /\ IF MissingFields(form)
       THEN /\ lastAlert' = "Missing Fields"
            /\ UNCHANGED <<view, form, pending, writes>>
       ELSE /\ Len(recipes) < MaxRecipes
            /\ Len(pending) < MaxPending
            /\ writes < MaxWrites
            /\ pending' = Append(pending,
                   Write("create", <<NewRecipe(form, t)>> \o recipes,
                         ToString(t), <<>>))
            /\ writes' = writes + 1
            /\ form' = EmptyForm
            /\ view' = "LIST"
            /\ UNCHANGED lastAlert
    /\ UNCHANGED <<recipes, recipesKind, selectedRecipe, loading, storage,
                   deleteDialog, loadFailed,
                   picker>>

\* renderDetail: the Back button
Back ==
    /\ Interactive /\ view = "DETAIL" /\ selectedRecipe # <<>>
    /\ view' = "LIST"
    /\ UNCHANGED <<recipes, recipesKind, selectedRecipe, loading, form, storage,
                   pending, deleteDialog, lastAlert, writes, loadFailed,
                   picker>>

\* renderDetail: the delete button opens Alert.alert("Delete", ...); its
\* Delete entry holds handleDelete and selectedRecipe.id of this render
PressDelete ==
    /\ Interactive /\ view = "DETAIL" /\ selectedRecipe # <<>>
    /\ deleteDialog' = <<[id |-> selectedRecipe[1].id, recipes |-> recipes,
                          selectedRecipe |-> selectedRecipe]>>
    /\ UNCHANGED <<recipes, recipesKind, view, selectedRecipe, loading, form,
                   storage, pending, lastAlert, writes, loadFailed,
                   picker>>

DeclineDeleteDeletes ==
    /\ deleteDialog # <<>>
    /\ Len(pending) < MaxPending
    /\ writes < MaxWrites
    /\ LET d == deleteDialog[1]
       IN pending' = Append(pending,
              Write("delete", FilterOut(d.recipes, d.id), d.id, d.selectedRecipe))
    /\ writes' = writes + 1
    /\ deleteDialog' = <<>>
    /\ UNCHANGED <<recipes, recipesKind, view, selectedRecipe, loading, form,
                   storage, lastAlert, loadFailed, picker>>

\* the dialog's Cancel entry
DeclineDelete ==
    /\ deleteDialog # <<>>
    /\ deleteDialog' = <<>>
    /\ UNCHANGED <<recipes, recipesKind, view, selectedRecipe, loading, form,
                   storage, pending, lastAlert, writes, loadFailed,
                   picker>>

\* the dialog's Delete entry: handleDelete(id) up to its await
HandleDelete ==
    /\ deleteDialog # <<>>
    /\ Len(pending) < MaxPending
    /\ writes < MaxWrites
    /\ LET d == deleteDialog[1]
       IN pending' = Append(pending,
              Write("delete", FilterOut(d.recipes, d.id), d.id, d.selectedRecipe))
    /\ writes' = writes + 1
    /\ deleteDialog' = <<>>
    /\ UNCHANGED <<recipes, recipesKind, view, selectedRecipe, loading, form,
                   storage, lastAlert, loadFailed,
                   picker>>

\* handleDelete after its await: the captured selectedRecipe against id
ClearsSelection(w) ==
    /\ w.op = "delete"
    /\ w.selectedRecipe # <<>>
    /\ w.selectedRecipe[1].id = w.id

\* saveRecipesToStorage: setRecipes(newRecipes) follows the awaited setItem
\* inside the try, so a rejected setItem skips it
RecipesAfterSaveNoRollback(newRecipes, ok) == newRecipes

RecipesAfterSave(newRecipes, ok) == IF ok THEN newRecipes ELSE recipes

\* AsyncStorage.setItem settles: the rest of saveRecipesToStorage, then the
\* rest of the handler that awaited it.  AsyncStorage runs its requests one
\* after the other, so the writes settle in the order they were issued.
SettleWrite(ok) ==
    /\ pending # <<>>
    /\ LET w == Head(pending)
       IN /\ recipes' = RecipesAfterSave(w.updated, ok)
          /\ IF ok
             THEN /\ storage' = Text(JSONStringify(w.updated))
                  /\ loadFailed' = FALSE
                  /\ UNCHANGED lastAlert
             ELSE /\ lastAlert' = "Failed to save recipe"
                  /\ UNCHANGED <<storage, loadFailed,
                   picker>>
          /\ IF ClearsSelection(w)
             THEN /\ selectedRecipe' = <<>>
                  /\ view' = "LIST"
             ELSE UNCHANGED <<selectedRecipe, view>>
    /\ pending' = Tail(pending)
    /\ UNCHANGED <<recipesKind, loading, form, deleteDialog, writes, picker>>

\* the process ends and the application is started again: useState initial
\* values, the mount effect runs loadRecipes; writes in flight are dropped
Restart ==
    /\ ~loading
    /\ recipes' = <<>>
    /\ recipesKind' = "array"
    /\ view' = "LIST"
    /\ selectedRecipe' = <<>>
    /\ loading' = TRUE
    /\ form' = EmptyForm
    /\ pending' = <<>>
    /\ deleteDialog' = <<>>
    /\ lastAlert' = ""
    /\ loadFailed' = FALSE
    /\ picker' = <<>>
    /\ UNCHANGED <<storage, writes>>

\* the asset the user picks in the image library
PickedUri == "file:pick.jpg"

\* what the user can type into the two required inputs of the ADD form
FieldInputs ==
    {<<"title", "">>, <<"title", "Pasta">>,
     <<"ingredients", "">>, <<"ingredients", "eggs">>}

\* what the user can type or tap in every input of the ADD form: the required
\* inputs, the category chips and the optional text inputs
DraftInputs ==
    FieldInputs
    \cup {<<"category", CATEGORIES[i]>> : i \in 1..Len(CATEGORIES)}
    \cup {<<k, v>> : k \in {"servings", "prepTime", "cookTime", "description",
                            "instructions"},
                     v \in {"", "x"}}

Next ==
    \/ \E ok \in BOOLEAN : LoadRecipes(ok)
    \/ DismissAlert
    \/ TapAdd
    \/ \E i \in 1..Len(recipes) : OpenDetail(i)
    \/ \E in \in FieldInputs : SetField(in[1], in[2])
    \/ PickImage
    \/ \E canceled \in BOOLEAN : PickResult(canceled, PickedUri)
    \/ CancelAdd
    \/ \E t \in 1..MaxNow : HandleSave(t)
    \/ Back
    \/ PressDelete
    \/ DeclineDelete
    \/ HandleDelete
    \/ \E ok \in BOOLEAN : SettleWrite(ok)
    \/ Restart

Spec == Init /\ [][Next]_vars

\* the mount effect calls loadRecipes and the promise of getItem settles
FairSpec == Spec /\ WF_vars(\E ok \in BOOLEAN : LoadRecipes(ok))

\* the application is installed: nothing is stored under STORAGE_KEY
InitDraft == Init /\ storage = Absent

\* one recipe is composed from every input of the ADD form and saved, then it
\* is opened and deleted
NextDraft ==
    \/ \E ok \in BOOLEAN : LoadRecipes(ok)
    \/ DismissAlert
    \/ /\ writes = 0
       /\ \/ TapAdd
          \/ \E in \in DraftInputs : SetField(in[1], in[2])
          \/ PickImage
          \/ \E canceled \in BOOLEAN : PickResult(canceled, PickedUri)
          \/ CancelAdd
          \/ \E t \in 1..MaxNow : HandleSave(t)
    \/ \E i \in 1..Len(recipes) : OpenDetail(i)
    \/ Back
    \/ PressDelete
    \/ DeclineDelete
    \/ HandleDelete
    \/ \E ok \in BOOLEAN : SettleWrite(ok)

SpecDraft == InitDraft /\ [][NextDraft]_vars

---------------------------------------------------------------------------
(* Properties *)

\* no initialize, create or delete is in flight
Quiescent == ~loading /\ pending = <<>>

\* the blob is absent or the JSON text of an array
Decodable(st) == st.kind = "absent" \/ (st.kind = "text" /\ st.doc.t = "array")

\* the collection a blob holds, the empty one when the blob is absent
Stored(st) == IF st.kind = "absent" THEN <<>> ELSE JSONParse(st.doc).items

\* C1: for every create and delete whose storage write fails, the collection
\* after the operation has settled equals the collection before it started.
C1_FailedWriteKeepsCollection ==
    [][SettleWrite(FALSE) => recipes' = Head(pending).before]_vars

\* C2 as stated: whenever no persistence operation is in flight, the in-memory
\* collection equals the collection in the durable blob.
C2_MemoryEqualsDurable ==
    (Quiescent /\ Decodable(storage)) =>
        (recipesKind = "array" /\ recipes = Stored(storage))

\* C2 as amended: whenever no persistence operation is in flight and the blob
\* is absent or an array, the in-memory collection equals the collection in
\* the blob, unless initialize failed and no write has succeeded since; then
\* the in-memory collection is the one initialize left, the empty one.
C2_MemoryEqualsDurableUnlessLoadFailed ==
    (Quiescent /\ Decodable(storage)) =>
        /\ recipesKind = "array"
        /\ IF loadFailed THEN recipes = <<>> ELSE recipes = Stored(storage)

\* C2 witness: nothing in flight after a failed and a successful write
C2_Witness ==
    /\ Quiescent /\ ~loadFailed
    /\ writes >= 2
    /\ lastAlert = "Failed to save recipe"
    /\ recipes # <<>>
    /\ recipes = Stored(storage)

\* C3: a create or delete whose write succeeds is applied to the collection
\* the writes before it produced: afterwards the collection has the recipes
\* it had, plus the created one or minus the deleted one.
C3_NoLostUpdate ==
    [][SettleWrite(TRUE) =>
          IF Head(pending).op = "create"
          THEN Ids(recipes') = Ids(recipes) \cup {Head(pending).id}
          ELSE Ids(recipes') = Ids(recipes) \ {Head(pending).id}]_vars

\* C4: a create whose write succeeds puts the new recipe at index 0, keeps the
\* recipes that were there after it in their order, and an initialize from
\* the blob yields the same collection.
C4_CreatePrepends ==
    [][(SettleWrite(TRUE) /\ Head(pending).op = "create"
          /\ Head(pending).id \notin Ids(recipes)) =>
          /\ recipes' # <<>>
          /\ recipes'[1].id = Head(pending).id
          /\ Tail(recipes') = recipes
          /\ Stored(storage') = recipes']_vars

\* C5: a save in ADD whose draft has an empty or unset title or ingredients
\* reports the validation error, writes nothing, and leaves the collection,
\* the view and the draft as they were.
C5_InvalidDraftRejected ==
    [][\A t \in 1..MaxNow :
          (HandleSave(t) /\ (form.title \in {"", UNDEFINED}
                             \/ form.ingredients \in {"", UNDEFINED})) =>
              /\ lastAlert' = "Missing Fields"
              /\ view' = "ADD"
              /\ UNCHANGED <<recipes, storage, pending, writes, form>>]_vars

\* C5 witness: the validation alert over an ADD form that has a title and no
\* ingredients
C5_Witness ==
    /\ lastAlert = "Missing Fields"
    /\ view = "ADD"
    /\ form.title = "Pasta"
    /\ form.ingredients \in {"", UNDEFINED}

\* C6: a delete of an id in the collection whose write succeeds removes the
\* recipe with that id and keeps every other recipe, in order, in the
\* collection and in the blob.
C6_DeleteRemovesOnlyTarget ==
    [][(SettleWrite(TRUE) /\ Head(pending).op = "delete"
          /\ Head(pending).id \in Ids(recipes)) =>
          /\ recipes' = FilterOut(recipes, Head(pending).id)
          /\ Stored(storage') = recipes']_vars

\* C7: handleDelete with an id no recipe of the collection has performs no
\* storage write and leaves the collection unchanged.
C7_DeleteMissingIdWritesNothing ==
    [][(HandleDelete /\ deleteDialog[1].id \notin Ids(recipes)) =>
          UNCHANGED <<pending, writes, recipes>>]_vars

\* C8: the recipes of the in-memory collection have pairwise distinct ids.
C8_UniqueIds ==
    \A i, j \in 1..Len(recipes) : recipes[i].id = recipes[j].id => i = j

\* C9: initialize reports the read error and leaves the empty collection when
\* the read fails or the blob is present and not an array of recipes, yields
\* the empty collection without an error when the blob is absent, and ends
\* the loading phase.
C9_FailOpenInitialize ==
    [][\A ok \in BOOLEAN :
          LoadRecipes(ok) =>
              /\ ~loading'
              /\ recipesKind' = "array"
              /\ (~ok \/ ~Decodable(storage)) =>
                     (lastAlert' = "Failed to load recipes" /\ recipes' = <<>>)
              /\ (ok /\ storage.kind = "absent") =>
                     (lastAlert' = lastAlert /\ recipes' = <<>>)]_vars

\* C10: in DETAIL a recipe is selected and a recipe with its id is in the
\* collection.
C10_SelectedRecipeExists ==
    view = "DETAIL" =>
        (selectedRecipe # <<>> /\ selectedRecipe[1].id \in Ids(recipes))

\* C11: the view moves only when no write is in flight: no step that leaves a
\* create or delete write in flight changes the view, so a valid save reaches
\* LIST only once its write has completed.
C11_NoTransitionWhileWriteInFlight ==
    [][pending' # <<>> => view' = view]_vars

\* C12: navigation does not change data: '+', an edit of the draft and cancel
\* leave the collection and the blob as they were and issue no write, '+'
\* ends in ADD and cancel in LIST; declining the delete confirmation leaves
\* the view, the selected recipe, the collection and the blob as they were
\* and issues no write.
C12_NavigationKeepsData ==
    [][/\ TapAdd =>
             view' = "ADD" /\ UNCHANGED <<recipes, storage, pending>>
       /\ (\E in \in DraftInputs : SetField(in[1], in[2])) =>
             UNCHANGED <<view, recipes, storage, pending>>
       /\ CancelAdd =>
             view' = "LIST" /\ UNCHANGED <<recipes, storage, pending>>
       /\ DeclineDelete =>
             UNCHANGED <<view, selectedRecipe, recipes, storage, pending>>]_vars

\* a draft was edited and cancelled over a stored recipe; collection and blob
\* still hold that recipe
C12_Witness ==
    /\ view = "LIST" /\ form.title = "Pasta" /\ pending = <<>>
    /\ recipes = <<OldRecipe>>
    /\ storage = Text(JSONStringify(<<OldRecipe>>))

\* C13: in every state with view LIST no recipe is selected (back clears the
\* selection).
C13_ListHasNoSelection ==
    view = "LIST" => selectedRecipe = <<>>

\* C14: the draft is empty in every state whose view is not ADD (cancel and
\* a valid save discard it).
C14_DraftEmptyOutsideAdd ==
    view # "ADD" => form = EmptyForm

\* C15: a recipe created from a valid draft has the title and the ingredients
\* of the draft, the category of the draft or "General", the image of the
\* draft or null, and for servings, prepTime, cookTime, description and
\* instructions the value of the draft or the empty string; from the empty
\* store, the delete of the one created recipe leaves the empty collection.
C15_FieldDefaults ==
    [][/\ \A t \in 1..MaxNow :
             (/\ HandleSave(t)
              /\ form.title \notin {UNDEFINED, ""}
              /\ form.ingredients \notin {UNDEFINED, ""}) =>
                 LET r == pending'[Len(pending')].updated[1]
                     WhenSet(v, d) == IF v = UNDEFINED THEN d ELSE v
                 IN /\ Len(pending') = Len(pending) + 1
                    /\ r.title = form.title
                    /\ r.ingredients = form.ingredients
                    /\ r.category = WhenSet(form.category, "General")
                    /\ r.image = WhenSet(form.image, NULL)
                    /\ \A k \in {"servings", "prepTime", "cookTime",
                                  "description", "instructions"} :
                           r[k] = WhenSet(form[k], "")
       /\ (SettleWrite(TRUE) /\ Head(pending).op = "delete") =>
             (recipes' = <<>> /\ storage' = Text(JSONStringify(<<>>)))]_vars

\* a recipe created from a draft with only the required inputs is in the
\* collection with its defaults
C15_Witness ==
    /\ Len(recipes) = 1
    /\ recipes[1].title = "Pasta" /\ recipes[1].ingredients = "eggs"
    /\ recipes[1].category = "General" /\ recipes[1].image = NULL
    /\ recipes[1].servings = "" /\ recipes[1].instructions = ""

\* C16: the result of the image library changes the draft only while the
\* view is ADD, and then only the image: a result that arrives when the view
\* is not ADD leaves the draft as it is.
C16_PickResultOnlyInAdd ==
    [][\A canceled \in BOOLEAN :
          PickResult(canceled, PickedUri) =>
              IF view = "ADD"
              THEN \A k \in RecipeKeys \ {"image"} : form'[k] = form[k]
              ELSE form' = form]_vars

\* C17: while loading is true the only step is the end of initialize, which
\* sets loading to false and makes no create, delete or view transition, and
\* initialize always ends: loading leads to not loading.
C17_LoadingGate ==
    /\ [][loading =>
             /\ ~loading'
             /\ UNCHANGED <<view, selectedRecipe, form, storage, pending,
                            writes, deleteDialog, picker>>]_vars
    /\ (loading ~> ~loading)

\* initialize failed on the read and the loading phase ended
C17_Witness ==
    ~loading /\ lastAlert = "Failed to load recipes" /\ view = "LIST"

\* C18: when the write of a confirmed delete settles, the view, the selected
\* recipe and the draft stay as they are if the view is ADD or the recipe
\* selected at that moment is not the deleted one.
C18_DeleteCompletionOnlyOwnDetail ==
    [][\A ok \in BOOLEAN :
          (/\ SettleWrite(ok)
           /\ Head(pending).op = "delete"
           /\ \/ view = "ADD"
              \/ selectedRecipe = <<>>
              \/ selectedRecipe[1].id # Head(pending).id) =>
              UNCHANGED <<view, selectedRecipe, form>>]_vars
====
